---- MODULE Spec2Model ----
(***************************************************************************)
(* Model of the media-type parser of the mime crate                        *)
(* (mime-parse/src/lib.rs): the byte-wise parser, the parameter storage,   *)
(* the parameter iterator and the equality routines.                       *)
(*                                                                         *)
(* Text is a sequence of byte values 0..255.  Offsets keep the 0-based     *)
(* values the Rust code computes; byte i of a text t is t[i + 1].          *)
(***************************************************************************)
EXTENDS Integers, Sequences, FiniteSets, TLC

----------------------------------------------------------------------------
(* Bytes and text *)

Ascii ==
  [c \in {"a", "b", "c", "d", "e", "f", "h", "r", "s", "t", "u", "x", "y",
          "A", "B", "C", "E", "F", "H", "R", "S", "T", "U", "X", "Y",
          "1", "2", "8", "-", "+", "*", "/", ";", "=", " ", "\"", "\\", "SOH"} |->
     CASE c = "a" -> 97  [] c = "b" -> 98  [] c = "c" -> 99  [] c = "d" -> 100
       [] c = "e" -> 101 [] c = "f" -> 102 [] c = "h" -> 104 [] c = "r" -> 114
       [] c = "s" -> 115 [] c = "t" -> 116 [] c = "u" -> 117 [] c = "x" -> 120
       [] c = "y" -> 121
       [] c = "A" -> 65  [] c = "B" -> 66  [] c = "C" -> 67  [] c = "E" -> 69
       [] c = "F" -> 70  [] c = "H" -> 72  [] c = "R" -> 82  [] c = "S" -> 83
       [] c = "T" -> 84  [] c = "U" -> 85  [] c = "X" -> 88  [] c = "Y" -> 89
       [] c = "1" -> 49  [] c = "2" -> 50  [] c = "8" -> 56
       [] c = "-" -> 45  [] c = "+" -> 43  [] c = "*" -> 42  [] c = "/" -> 47
       [] c = ";" -> 59  [] c = "=" -> 61  [] c = " " -> 32
       [] c = "\"" -> 34
       [] c = "\\" -> 92
       [] c = "SOH" -> 1]   \* a control byte

\* The text whose bytes are the characters of cs.
B(cs) == [i \in 1..Len(cs) |-> Ascii[cs[i]]]

\* s[a..b] of Rust: the bytes at offsets a .. b-1.
Slice(t, a, b) == SubSeq(t, a + 1, b)

\* u8::to_ascii_lowercase
LowerByte(b) == IF b >= 65 /\ b <= 90 THEN b + 32 ELSE b

\* str::to_ascii_lowercase
to_ascii_lowercase(t) == [i \in 1..Len(t) |-> LowerByte(t[i])]

\* str::eq_ignore_ascii_case
eq_ignore_ascii_case(t, u) ==
  /\ Len(t) = Len(u)
  /\ \A i \in 1..Len(t) : LowerByte(t[i]) = LowerByte(u[i])

\* t with the bytes at offsets a .. b-1 lowercased (make_ascii_lowercase on
\* a sub-slice).
LowerRange(t, a, b) ==
  [i \in 1..Len(t) |-> IF i > a /\ i <= b THEN LowerByte(t[i]) ELSE t[i]]

StarSlashStar == B(<<"*", "/", "*">>)
CharsetText == B(<<"c", "h", "a", "r", "s", "e", "t">>)
Utf8Text == B(<<"u", "t", "f", "-", "8">>)

----------------------------------------------------------------------------
(* The token classifier *)

TOKEN_MAP ==
  <<0, 0, 0, 0, 0, 0, 0, 0, 0, 0, 0, 0, 0, 0, 0, 0,
    0, 0, 0, 0, 0, 0, 0, 0, 0, 0, 0, 0, 0, 0, 0, 0,
    0, 1, 0, 1, 1, 1, 1, 1, 0, 0, 0, 1, 0, 1, 1, 0,
    1, 1, 1, 1, 1, 1, 1, 1, 1, 1, 0, 0, 0, 0, 0, 0,
    0, 1, 1, 1, 1, 1, 1, 1, 1, 1, 1, 1, 1, 1, 1, 1,
    1, 1, 1, 1, 1, 1, 1, 1, 1, 1, 1, 0, 0, 0, 1, 1,
    1, 1, 1, 1, 1, 1, 1, 1, 1, 1, 1, 1, 1, 1, 1, 1,
    1, 1, 1, 1, 1, 1, 1, 1, 1, 1, 1, 0, 1, 0, 1, 0,
    0, 0, 0, 0, 0, 0, 0, 0, 0, 0, 0, 0, 0, 0, 0, 0,
    0, 0, 0, 0, 0, 0, 0, 0, 0, 0, 0, 0, 0, 0, 0, 0,
    0, 0, 0, 0, 0, 0, 0, 0, 0, 0, 0, 0, 0, 0, 0, 0,
    0, 0, 0, 0, 0, 0, 0, 0, 0, 0, 0, 0, 0, 0, 0, 0,
    0, 0, 0, 0, 0, 0, 0, 0, 0, 0, 0, 0, 0, 0, 0, 0,
    0, 0, 0, 0, 0, 0, 0, 0, 0, 0, 0, 0, 0, 0, 0, 0,
    0, 0, 0, 0, 0, 0, 0, 0, 0, 0, 0, 0, 0, 0, 0, 0,
    0, 0, 0, 0, 0, 0, 0, 0, 0, 0, 0, 0, 0, 0, 0, 0>>

\* is_token accepting every tchar of RFC 7231, `*` included.
is_token_rfc(c) == TOKEN_MAP[c + 1] # 0 \/ c = 42

is_token(c) == TOKEN_MAP[c + 1] # 0

is_restricted_quoted_char(c) == c = 9 \/ (c > 31 /\ c # 127)

\* TOKEN_MAP of the second edition of the parser (src/parse.rs).
parse_rs_TOKEN_MAP ==
  <<0, 0, 0, 0, 0, 0, 0, 0, 0, 0, 0, 0, 0, 0, 0, 0,
    0, 0, 0, 0, 0, 0, 0, 0, 0, 0, 0, 0, 0, 0, 0, 0,
    0, 1, 0, 1, 1, 1, 1, 1, 0, 0, 0, 1, 0, 1, 1, 0,
    1, 1, 1, 1, 1, 1, 1, 1, 1, 1, 0, 0, 0, 0, 0, 0,
    0, 1, 1, 1, 1, 1, 1, 1, 1, 1, 1, 1, 1, 1, 1, 1,
    1, 1, 1, 1, 1, 1, 1, 1, 1, 1, 1, 0, 0, 0, 1, 1,
    1, 1, 1, 1, 1, 1, 1, 1, 1, 1, 1, 1, 1, 1, 1, 1,
    1, 1, 1, 1, 1, 1, 1, 1, 1, 1, 1, 0, 1, 0, 1, 0,
    0, 0, 0, 0, 0, 0, 0, 0, 0, 0, 0, 0, 0, 0, 0, 0,
    0, 0, 0, 0, 0, 0, 0, 0, 0, 0, 0, 0, 0, 0, 0, 0,
    0, 0, 0, 0, 0, 0, 0, 0, 0, 0, 0, 0, 0, 0, 0, 0,
    0, 0, 0, 0, 0, 0, 0, 0, 0, 0, 0, 0, 0, 0, 0, 0,
    0, 0, 0, 0, 0, 0, 0, 0, 0, 0, 0, 0, 0, 0, 0, 0,
    0, 0, 0, 0, 0, 0, 0, 0, 0, 0, 0, 0, 0, 0, 0, 0,
    0, 0, 0, 0, 0, 0, 0, 0, 0, 0, 0, 0, 0, 0, 0, 0,
    0, 0, 0, 0, 0, 0, 0, 0, 0, 0, 0, 0, 0, 0, 0, 0>>

\* The expectation of test_lookup_tables with `*` among the token bytes.
should_with_star(i) ==
  \/ i >= 97 /\ i <= 122
  \/ i >= 65 /\ i <= 90
  \/ i >= 48 /\ i <= 57
  \/ i \in {33, 35, 36, 37, 38, 39, 42, 43, 45, 46, 94, 95, 96, 124, 126}

\* test_lookup_tables: the expectation `should` for byte i, the same match
\* in both editions.
should(i) ==
  \/ i >= 97 /\ i <= 122
  \/ i >= 65 /\ i <= 90
  \/ i >= 48 /\ i <= 57
  \/ i \in {33, 35, 36, 37, 38, 39, 43, 45, 46, 94, 95, 96, 124, 126}

----------------------------------------------------------------------------
(* Values *)

None == <<>>
Some(x) == <<x>>

\* struct Indexed(usize, usize)
Indexed(a, b) == <<a, b>>

\* enum ParamSource; pairs holds the IndexedPair fields in order.
PSNone == [tag |-> "None", semi |-> 0, pairs |-> <<>>]
PSUtf8(i) == [tag |-> "Utf8", semi |-> i, pairs |-> <<>>]
PSOne(i, a) == [tag |-> "One", semi |-> i, pairs |-> <<a>>]
PSTwo(i, a, b) == [tag |-> "Two", semi |-> i, pairs |-> <<a, b>>]
PSThree(i, a, b, c) == [tag |-> "Three", semi |-> i, pairs |-> <<a, b, c>>]
PSCustom(i, v) == [tag |-> "Custom", semi |-> i, pairs |-> v]

\* enum Source
Atom(t) == [kind |-> "Atom", text |-> t]
Dynamic(t) == [kind |-> "Dynamic", text |-> t]

\* enum ParseError
NoError == [kind |-> "none", pos |-> 0, byte |-> 0]
MissingSlash == [kind |-> "MissingSlash", pos |-> 0, byte |-> 0]
MissingEqual == [kind |-> "MissingEqual", pos |-> 0, byte |-> 0]
MissingQuote == [kind |-> "MissingQuote", pos |-> 0, byte |-> 0]
InvalidRange == [kind |-> "InvalidRange", pos |-> 0, byte |-> 0]
InvalidToken(p, b) == [kind |-> "InvalidToken", pos |-> p, byte |-> b]

\* struct Mime
Mime(src, sl, pl, ps) == [source |-> src, slash |-> sl, plus |-> pl, params |-> ps]

NoMime == Mime(Dynamic(<<>>), 0, None, PSNone)

----------------------------------------------------------------------------
(* Source::intern, the closure handed to parse.  It lives outside the      *)
(* parser crate; the specification leaves open whether it folds the case   *)
(* of a parameterless text, so the closure is an input of the call:        *)
(* "fold" lowercases, "keep" stores the text verbatim.  A text that is a   *)
(* recognised constant becomes an Atom.                                    *)

InternKinds == {"fold", "keep"}

KnownAtoms == {B(<<"a", "/", "b">>)}

intern(kind, s, slash) ==
  LET t == IF kind = "fold" THEN to_ascii_lowercase(s) ELSE s
  IN  IF t \in KnownAtoms THEN Atom(t) ELSE Dynamic(t)

----------------------------------------------------------------------------
(* lower_ascii_with_params *)

RECURSIVE LowerParams(_, _, _)
LowerParams(owned, params, k) ==
  IF k > Len(params) THEN owned
  ELSE LET name == params[k][1]
           value == params[k][2]
           o1 == LowerRange(owned, name[1], name[2])
           o2 == IF Slice(o1, name[1], name[2]) = CharsetText
                 THEN LowerRange(o1, value[1], value[2])
                 ELSE o1
       IN  LowerParams(o2, params, k + 1)

\* lower_ascii_with_params leaving every value as written.
lower_ascii_names_only(s, semi, params) ==
  LET RECURSIVE Names(_, _)
      Names(owned, k) ==
        IF k > Len(params) THEN owned
        ELSE Names(LowerRange(owned, params[k][1][1], params[k][1][2]), k + 1)
  IN  Names(LowerRange(s, 0, semi), 1)

lower_ascii_with_params(s, semi, params) ==
  LowerParams(LowerRange(s, 0, semi), params, 1)

----------------------------------------------------------------------------
(* parse and params_from_str, one step per iter.next() call.  A frame      *)
(* holds the arguments and locals of one call of parse.                    *)

Frame(s, can_range, kind) ==
  [s |-> s, can_range |-> can_range, intern |-> kind,
   pc |-> "entry", iter |-> 0, nexts |-> 0,
   start |-> 0, slash |-> 0, plus |-> None, semicolon |-> 0,
   params |-> PSNone, name |-> Indexed(0, 0), value |-> Indexed(0, 0),
   is_quoted |-> FALSE, is_quoted_pair |-> FALSE,
   res |-> "run", mime |-> NoMime, err |-> NoError]

ReturnOk(f, m) == [f EXCEPT !.pc = "done", !.res = "ok", !.mime = m]
ReturnErr(f, e) == [f EXCEPT !.pc = "done", !.res = "err", !.err = e]

\* iter.next(): Some((i, c)) while bytes remain, None afterwards.
HasNext(f) == f.iter < Len(f.s)
NextByte(f) == f.s[f.iter + 1]
Advance(f) ==
  [f EXCEPT !.iter = IF HasNext(f) THEN @ + 1 ELSE @, !.nexts = @ + 1]

\* parse without the `*/*` short-circuit.
StepEntry_no_shortcut(f) == [f EXCEPT !.pc = "toplevel"]

\* The `*/*` short-circuit.
StepEntry(f) ==
  IF f.s = StarSlashStar
  THEN IF f.can_range = "Yes"
       THEN ReturnOk(f, Mime(Atom(StarSlashStar), 1, None, PSNone))
       ELSE ReturnErr(f, InvalidRange)
  ELSE [f EXCEPT !.pc = "toplevel"]

StepTopLevel(f) ==
  LET g == Advance(f)
      i == f.iter
  IN  IF ~HasNext(f) THEN ReturnErr(g, MissingSlash)
      ELSE LET c == NextByte(f)
           IN  IF is_token(c) THEN g
               ELSE IF c = Ascii["/"] /\ i > 0
               THEN [g EXCEPT !.slash = i, !.start = i + 1, !.pc = "sublevel"]
               ELSE ReturnErr(g, InvalidToken(i, c))

\* The sublevel loop recording a `+` at the first subtype byte too.
StepSubLevel_plus_at_start(f) ==
  LET g == Advance(f)
      i == f.iter
  IN  IF ~HasNext(f)
      THEN ReturnOk(g, Mime(intern(f.intern, f.s, f.slash), f.slash, f.plus, PSNone))
      ELSE LET c == NextByte(f)
           IN  IF c = Ascii["+"] /\ i >= f.start THEN [g EXCEPT !.plus = Some(i)]
               ELSE IF c = Ascii[";"] /\ i > f.start
               THEN [g EXCEPT !.start = i, !.pc = "params"]
               ELSE IF c = Ascii["*"] /\ i = f.start /\ f.can_range = "Yes"
               THEN [g EXCEPT !.pc = "star"]
               ELSE IF is_token(c) THEN g
               ELSE ReturnErr(g, InvalidToken(i, c))

StepSubLevel(f) ==
  LET g == Advance(f)
      i == f.iter
  IN  IF ~HasNext(f)
      THEN ReturnOk(g, Mime(intern(f.intern, f.s, f.slash), f.slash, f.plus, PSNone))
      ELSE LET c == NextByte(f)
           IN  IF c = Ascii["+"] /\ i > f.start THEN [g EXCEPT !.plus = Some(i)]
               ELSE IF c = Ascii[";"] /\ i > f.start
               THEN [g EXCEPT !.start = i, !.pc = "params"]
               ELSE IF c = Ascii["*"] /\ i = f.start /\ f.can_range = "Yes"
               THEN [g EXCEPT !.pc = "star"]
               ELSE IF is_token(c) THEN g
               ELSE ReturnErr(g, InvalidToken(i, c))

\* The byte after a sublevel star.
StepStar(f) ==
  LET g == Advance(f)
      i == f.iter
  IN  IF ~HasNext(f)
      THEN ReturnOk(g, Mime(intern(f.intern, f.s, f.slash), f.slash, f.plus, PSNone))
      ELSE LET c == NextByte(f)
           IN  IF c = Ascii[";"] THEN [g EXCEPT !.start = i, !.pc = "params"]
               ELSE ReturnErr(g, InvalidToken(i, c))

\* Entry of params_from_str leaving start at the `;`.
StepParams_keep_start(f) ==
  [f EXCEPT !.semicolon = f.start, !.params = PSNone, !.pc = "params_loop"]

\* Entry of params_from_str.
StepParams(f) ==
  [f EXCEPT !.semicolon = f.start, !.start = f.start + 1,
            !.params = PSNone, !.pc = "params_loop"]

\* The source lowercased as a whole whenever there are parameters.
SourceFor_lower_all(f) ==
  IF f.params.tag = "None" THEN intern(f.intern, f.s, f.slash)
  ELSE Dynamic(to_ascii_lowercase(f.s))

\* The source of the returned Mime, chosen by the storage variant.
SourceFor(f) ==
  LET p == f.params
  IN  IF p.tag = "None" THEN intern(f.intern, f.s, f.slash)
      ELSE IF p.tag = "Utf8" THEN Dynamic(to_ascii_lowercase(f.s))
      ELSE Dynamic(lower_ascii_with_params(f.s, p.semi, p.pairs))

\* The head of the 'params loop; when it ends, params_from_str returns and
\* parse builds the Mime.
StepParamsLoop(f) ==
  IF f.start < Len(f.s)
  THEN [f EXCEPT !.pc = "name"]
  ELSE ReturnOk(f, Mime(SourceFor(f), f.slash, f.plus, f.params))

\* The 'name loop taking the `=` into the name span.
StepName_with_equal(f) ==
  LET g == Advance(f)
      i == f.iter
  IN  IF ~HasNext(f) THEN ReturnErr(g, MissingEqual)
      ELSE LET c == NextByte(f)
           IN  IF c = Ascii[" "] /\ i = f.start THEN [g EXCEPT !.start = i + 1]
               ELSE IF is_token(c) THEN g
               ELSE IF c = Ascii["="] /\ i > f.start
               THEN [g EXCEPT !.name = Indexed(f.start, i + 1), !.start = i + 1,
                              !.is_quoted = FALSE, !.is_quoted_pair = FALSE,
                              !.pc = "value"]
               ELSE ReturnErr(g, InvalidToken(i, c))

StepName(f) ==
  LET g == Advance(f)
      i == f.iter
  IN  IF ~HasNext(f) THEN ReturnErr(g, MissingEqual)
      ELSE LET c == NextByte(f)
           IN  IF c = Ascii[" "] /\ i = f.start THEN [g EXCEPT !.start = i + 1]
               ELSE IF is_token(c) THEN g
               ELSE IF c = Ascii["="] /\ i > f.start
               THEN [g EXCEPT !.name = Indexed(f.start, i), !.start = i + 1,
                              !.is_quoted = FALSE, !.is_quoted_pair = FALSE,
                              !.pc = "value"]
               ELSE ReturnErr(g, InvalidToken(i, c))

\* The 'value loop right after an escape backslash.
StepQuotedPair(f) ==
  LET g == [Advance(f) EXCEPT !.is_quoted_pair = FALSE]
      i == f.iter
  IN  IF ~HasNext(f) THEN ReturnErr(g, MissingQuote)
      ELSE IF is_restricted_quoted_char(NextByte(f)) THEN g
      ELSE ReturnErr(g, InvalidToken(i, NextByte(f)))

\* The quoted 'value loop treating a backslash as an ordinary byte.
StepQuoted_no_escape(f) ==
  LET g == Advance(f)
      i == f.iter
  IN  IF ~HasNext(f) THEN ReturnErr(g, MissingQuote)
      ELSE LET c == NextByte(f)
           IN  IF c = Ascii["\""] /\ i > f.start
               THEN [g EXCEPT !.value = Indexed(f.start, i + 1), !.pc = "ws"]
               ELSE IF is_restricted_quoted_char(c) THEN g
               ELSE ReturnErr(g, InvalidToken(i, c))

\* The 'value loop inside a quoted value.
StepQuoted(f) ==
  LET g == Advance(f)
      i == f.iter
  IN  IF ~HasNext(f) THEN ReturnErr(g, MissingQuote)
      ELSE LET c == NextByte(f)
           IN  IF c = Ascii["\""] /\ i > f.start
               THEN [g EXCEPT !.value = Indexed(f.start, i + 1), !.pc = "ws"]
               ELSE IF c = Ascii["\\"] THEN [g EXCEPT !.is_quoted_pair = TRUE]
               ELSE IF is_restricted_quoted_char(c) THEN g
               ELSE ReturnErr(g, InvalidToken(i, c))

\* The unquoted 'value loop reporting an invalid byte at the value's start.
StepUnquoted_at_start(f) ==
  LET g == Advance(f)
      i == f.iter
  IN  IF ~HasNext(f)
      THEN [g EXCEPT !.value = Indexed(f.start, Len(f.s)), !.start = Len(f.s),
                     !.pc = "store"]
      ELSE LET c == NextByte(f)
           IN  IF c = Ascii["\""] /\ i = f.start
               THEN [g EXCEPT !.is_quoted = TRUE, !.start = i]
               ELSE IF is_token(c) THEN g
               ELSE IF c = Ascii[";"] /\ i > f.start
               THEN [g EXCEPT !.value = Indexed(f.start, i), !.start = i + 1,
                              !.pc = "store"]
               ELSE ReturnErr(g, InvalidToken(f.start, c))

\* The 'value loop outside quotes.
StepUnquoted(f) ==
  LET g == Advance(f)
      i == f.iter
  IN  IF ~HasNext(f)
      THEN [g EXCEPT !.value = Indexed(f.start, Len(f.s)), !.start = Len(f.s),
                     !.pc = "store"]
      ELSE LET c == NextByte(f)
           IN  IF c = Ascii["\""] /\ i = f.start
               THEN [g EXCEPT !.is_quoted = TRUE, !.start = i]
               ELSE IF is_token(c) THEN g
               ELSE IF c = Ascii[";"] /\ i > f.start
               THEN [g EXCEPT !.value = Indexed(f.start, i), !.start = i + 1,
                              !.pc = "store"]
               ELSE ReturnErr(g, InvalidToken(i, c))

StepValue(f) ==
  IF f.is_quoted
  THEN IF f.is_quoted_pair THEN StepQuotedPair(f) ELSE StepQuoted(f)
  ELSE StepUnquoted(f)

\* The 'ws loop ending in an error at the end of input.
StepWs_eof_error(f) ==
  LET g == Advance(f)
      i == f.iter
  IN  IF ~HasNext(f) THEN ReturnErr(g, MissingQuote)
      ELSE LET c == NextByte(f)
           IN  IF c = Ascii[";"] THEN [g EXCEPT !.start = i + 1, !.pc = "store"]
               ELSE IF c = Ascii[" "] THEN g
               ELSE ReturnErr(g, InvalidToken(i, c))

\* The 'ws loop after a quoted value.
StepWs(f) ==
  LET g == Advance(f)
      i == f.iter
  IN  IF ~HasNext(f) THEN [g EXCEPT !.start = Len(f.s), !.pc = "store"]
      ELSE LET c == NextByte(f)
           IN  IF c = Ascii[";"] THEN [g EXCEPT !.start = i + 1, !.pc = "store"]
               ELSE IF c = Ascii[" "] THEN g
               ELSE ReturnErr(g, InvalidToken(i, c))

\* `match params` choosing the shorthand wherever the first name starts.
GrowParams_any_space(f) ==
  LET p == f.params
      nv == <<f.name, f.value>>
  IN  CASE p.tag = "Utf8" ->
             LET i == p.semi + 2
                 charset == Indexed(i, Len(CharsetText) + i)
                 utf8 == Indexed(charset[2] + 1, charset[2] + Len(Utf8Text) + 1)
             IN  PSTwo(f.semicolon, <<charset, utf8>>, nv)
        [] p.tag = "One" -> PSTwo(p.semi, p.pairs[1], nv)
        [] p.tag = "Two" -> PSThree(p.semi, p.pairs[1], p.pairs[2], nv)
        [] p.tag = "Three" -> PSCustom(p.semi, Append(p.pairs, nv))
        [] p.tag = "Custom" -> PSCustom(p.semi, Append(p.pairs, nv))
        [] p.tag = "None" ->
             IF /\ TRUE
                /\ eq_ignore_ascii_case(CharsetText, Slice(f.s, f.name[1], f.name[2]))
                /\ eq_ignore_ascii_case(Utf8Text, Slice(f.s, f.value[1], f.value[2]))
             THEN PSUtf8(f.semicolon)
             ELSE PSOne(f.semicolon, nv)

\* `match params`: the storage grows by the pair just parsed.
GrowParams(f) ==
  LET p == f.params
      nv == <<f.name, f.value>>
  IN  CASE p.tag = "Utf8" ->
             LET i == p.semi + 2
                 charset == Indexed(i, Len(CharsetText) + i)
                 utf8 == Indexed(charset[2] + 1, charset[2] + Len(Utf8Text) + 1)
             IN  PSTwo(f.semicolon, <<charset, utf8>>, nv)
        [] p.tag = "One" -> PSTwo(p.semi, p.pairs[1], nv)
        [] p.tag = "Two" -> PSThree(p.semi, p.pairs[1], p.pairs[2], nv)
        [] p.tag = "Three" -> PSCustom(p.semi, Append(p.pairs, nv))
        [] p.tag = "Custom" -> PSCustom(p.semi, Append(p.pairs, nv))
        [] p.tag = "None" ->
             IF /\ f.semicolon + 2 = f.name[1]
                /\ eq_ignore_ascii_case(CharsetText, Slice(f.s, f.name[1], f.name[2]))
                /\ eq_ignore_ascii_case(Utf8Text, Slice(f.s, f.value[1], f.value[2]))
             THEN PSUtf8(f.semicolon)
             ELSE PSOne(f.semicolon, nv)

\* The store step starting the dynamic list with the fourth pair alone.
StepStore_forget(f) ==
  [f EXCEPT !.params = IF f.params.tag = "Three"
                       THEN PSCustom(f.params.semi, <<<<f.name, f.value>>>>)
                       ELSE GrowParams(f),
            !.pc = "params_loop"]

StepStore(f) == [f EXCEPT !.params = GrowParams(f), !.pc = "params_loop"]

Step(f) ==
  CASE f.pc = "entry" -> StepEntry(f)
    [] f.pc = "toplevel" -> StepTopLevel(f)
    [] f.pc = "sublevel" -> StepSubLevel(f)
    [] f.pc = "star" -> StepStar(f)
    [] f.pc = "params" -> StepParams(f)
    [] f.pc = "params_loop" -> StepParamsLoop(f)
    [] f.pc = "name" -> StepName(f)
    [] f.pc = "value" -> StepValue(f)
    [] f.pc = "ws" -> StepWs(f)
    [] f.pc = "store" -> StepStore(f)
    [] OTHER -> f

RECURSIVE Run(_)
Run(f) == IF f.pc = "done" THEN f ELSE Run(Step(f))

\* parse(s, can_range, intern) as a whole: the frame at its return.
parse(s, can_range, kind) == Run(Frame(s, can_range, kind))

----------------------------------------------------------------------------
(* impl Mime: accessors *)

semicolon(m) == IF m.params.tag = "None" THEN None ELSE Some(m.params.semi)

has_params(m) == semicolon(m) # None

as_ref(m) == m.source.text

\* The end of the type/subtype section: the `;` offset, else the length.
SectionEnd(m) == IF has_params(m) THEN m.params.semi ELSE Len(as_ref(m))

type_(m) == Slice(as_ref(m), 0, m.slash)

\* subtype() running up to the end of the section, past any `+`.
subtype_past_plus(m) == Slice(as_ref(m), m.slash + 1, SectionEnd(m))

subtype(m) ==
  LET end == IF m.plus # None THEN m.plus[1] ELSE SectionEnd(m)
  IN  Slice(as_ref(m), m.slash + 1, end)

suffix(m) ==
  IF m.plus = None THEN None
  ELSE Some(Slice(as_ref(m), m.plus[1] + 1, SectionEnd(m)))

----------------------------------------------------------------------------
(* The parameter iterator.  ParamsInner::Inlined holds the pairs still to  *)
(* be yielded (Inline::Done is the empty list); ParamsInner::Custom holds  *)
(* the slice iterator, the list of pairs and the index of the next one.    *)

PINone == [tag |-> "None", pairs |-> <<>>, idx |-> 0]
PIUtf8 == [tag |-> "Utf8", pairs |-> <<>>, idx |-> 0]
PIInlined(ps) == [tag |-> "Inlined", pairs |-> ps, idx |-> 0]
PICustom(ps, k) == [tag |-> "Custom", pairs |-> ps, idx |-> k]

\* Mime::params
params(m) ==
  CASE m.params.tag = "Utf8" -> PIUtf8
    [] m.params.tag \in {"One", "Two", "Three"} -> PIInlined(m.params.pairs)
    [] m.params.tag = "Custom" -> PICustom(m.params.pairs, 1)
    [] OTHER -> PINone

\* The (name, value) texts of a span pair.
PairText(src, pr) ==
  <<Slice(src, pr[1][1], pr[1][2]), Slice(src, pr[2][1], pr[2][2])>>

\* Params::next yielding the inline pairs last to first.
ParamsNext_last_first(src, it) ==
  CASE it.tag = "Utf8" ->
         [item |-> Some(<<CharsetText, Utf8Text>>), it |-> PINone]
    [] it.tag = "Inlined" ->
         IF it.pairs = <<>> THEN [item |-> None, it |-> it]
         ELSE [item |-> Some(PairText(src, it.pairs[Len(it.pairs)])),
               it |-> PIInlined(SubSeq(it.pairs, 1, Len(it.pairs) - 1))]
    [] it.tag = "Custom" ->
         IF it.idx > Len(it.pairs) THEN [item |-> None, it |-> it]
         ELSE [item |-> Some(PairText(src, it.pairs[it.idx])),
               it |-> PICustom(it.pairs, it.idx + 1)]
    [] OTHER -> [item |-> None, it |-> it]

\* Params::next: the item (None or Some(pair)) and the iterator afterwards.
ParamsNext(src, it) ==
  CASE it.tag = "Utf8" ->
         [item |-> Some(<<CharsetText, Utf8Text>>), it |-> PINone]
    [] it.tag = "Inlined" ->
         IF it.pairs = <<>> THEN [item |-> None, it |-> it]
         ELSE [item |-> Some(PairText(src, Head(it.pairs))),
               it |-> PIInlined(Tail(it.pairs))]
    [] it.tag = "Custom" ->
         IF it.idx > Len(it.pairs) THEN [item |-> None, it |-> it]
         ELSE [item |-> Some(PairText(src, it.pairs[it.idx])),
               it |-> PICustom(it.pairs, it.idx + 1)]
    [] OTHER -> [item |-> None, it |-> it]

\* All items of an iterator, in the order next() yields them.
RECURSIVE Drain(_, _)
Drain(src, it) ==
  LET r == ParamsNext(src, it)
  IN  IF r.item = None THEN <<>> ELSE <<r.item[1]>> \o Drain(src, r.it)

\* fast_eq without its Equals arm.
fast_eq_no_equals(a, b) ==
  IF a.tag = "None" \/ b.tag = "None" THEN "NotEquals" ELSE "Undetermined"

\* Params::fast_eq
fast_eq(a, b) ==
  IF (a.tag = "None" /\ b.tag = "None") \/ (a.tag = "Utf8" /\ b.tag = "Utf8")
  THEN "Equals"
  ELSE IF a.tag = "None" \/ b.tag = "None" THEN "NotEquals"
  ELSE "Undetermined"

\* collect::<HashMap<_, _>>(): a later pair replaces an earlier one of the
\* same name.  The map is the set of its (name, value) entries.
CollectHashMap(items) ==
  {items[i] : i \in {j \in 1..Len(items) :
                       \A k \in (j + 1)..Len(items) : items[k][1] # items[j][1]}}

\* eq_of_params comparing the parameters as ordered lists of self and other.
eq_of_params_ordered(self, other) ==
  LET fast == fast_eq(params(self), params(other))
  IN  IF fast = "Equals" THEN TRUE
      ELSE IF fast = "NotEquals" THEN FALSE
      ELSE Drain(as_ref(self), params(self)) = Drain(as_ref(other), params(other))

\* Mime::eq_of_params.  Both maps are collected from self.params().
eq_of_params(self, other) ==
  LET fast == fast_eq(params(self), params(other))
  IN  IF fast = "Equals" THEN TRUE
      ELSE IF fast = "NotEquals" THEN FALSE
      ELSE LET my_params == CollectHashMap(Drain(as_ref(self), params(self)))
               other_params == CollectHashMap(Drain(as_ref(self), params(self)))
           IN  my_params = other_params

\* impl PartialEq for Mime
eq(self, other) ==
  IF self.source.kind = "Atom" /\ other.source.kind = "Atom"
  THEN self.source.text = other.source.text
  ELSE /\ type_(self) = type_(other)
       /\ subtype(self) = subtype(other)
       /\ suffix(self) = suffix(other)
       /\ eq_of_params(self, other)

\* Mime::eq_str
eq_str(self, s, kind) ==
  IF self.params.tag = "Utf8"
  THEN IF Len(as_ref(self)) = Len(s)
       THEN eq_ignore_ascii_case(as_ref(self), s)
       ELSE LET r == parse(s, "Yes", kind)
            IN  IF r.res = "ok" THEN eq(self, r.mime) ELSE FALSE
  ELSE IF has_params(self)
  THEN LET r == parse(s, "Yes", kind)
       IN  IF r.res = "ok" THEN eq(self, r.mime) ELSE FALSE
  ELSE eq_ignore_ascii_case(as_ref(self), s)

\* str::cmp: the first differing byte decides, then the lengths.
str_cmp(t, u) ==
  LET n == IF Len(t) < Len(u) THEN Len(t) ELSE Len(u)
      diff == {i \in 1..n : t[i] # u[i]}
  IN  IF diff # {}
      THEN LET i == CHOOSE d \in diff : \A e \in diff : d <= e
           IN  IF t[i] < u[i] THEN "Less" ELSE "Greater"
      ELSE IF Len(t) < Len(u) THEN "Less"
      ELSE IF Len(t) > Len(u) THEN "Greater"
      ELSE "Equal"

\* Ord::cmp comparing the type/subtype sections only.
cmp_sections(self, other) ==
  str_cmp(Slice(as_ref(self), 0, SectionEnd(self)),
          Slice(as_ref(other), 0, SectionEnd(other)))

\* impl Ord for Mime
cmp(self, other) == str_cmp(as_ref(self), as_ref(other))

\* impl Hash for Mime: the byte slices written to the hasher, in order.
hash(self) == <<as_ref(self)>>

----------------------------------------------------------------------------
(* The inputs of the model: media types put together from heads and        *)
(* parameter segments, and all short texts over a small alphabet.          *)

MaxParams == 4
MaxShort == 3

RECURSIVE Concat(_)
Concat(ts) == IF ts = <<>> THEN <<>> ELSE Head(ts) \o Concat(Tail(ts))

\* The sequences without repetition over S of length at most n.
InjSeqs(S, n) ==
  {q \in UNION {[1..k -> S] : k \in 0..n} :
     \A i, j \in DOMAIN q : i # j => q[i] # q[j]}

GoodHeads ==
  {B(<<"a", "/", "b">>), B(<<"A", "/", "b", "+", "C">>), B(<<"a", "/", "*">>)}

MainSegs ==
  {B(<<";", "x", "=", "1">>),
   B(<<";", "x", "=", "2">>),
   B(<<";", "Y", "=", "1">>),
   B(<<";", " ", "c", "h", "a", "r", "s", "e", "t", "=", "u", "t", "f", "-", "8">>),
   B(<<";", " ", "y", "=", "\"", "A", "\\", "\"", "\"", " ">>)}

CharsetSegs ==
  {B(<<";", "c", "h", "a", "r", "s", "e", "t", "=", "u", "t", "f", "-", "8">>),
   B(<<";", "C", "H", "A", "R", "S", "E", "T", "=", "U", "T", "F", "-", "8">>),
   B(<<";", " ", "C", "h", "a", "r", "s", "e", "t", "=", "U", "T", "F", "-", "8">>),
   B(<<";", "c", "h", "a", "r", "s", "e", "t", "=", "\"", "U", "T", "F", "-", "8", "\"">>),
   B(<<";", " ", "c", "h", "a", "r", "s", "e", "t", "=", "u", "t", "f", "8">>),
   B(<<";", "c", "h", "a", "r", "s", "e", "t", "=", "u", "t", "f", "-", "8", ";">>)}

\* Endings that are malformed or at the edge of the grammar.
Tails ==
  {B(<<";">>),
   B(<<";", " ">>),
   B(<<";", "x">>),
   B(<<";", "x", "=">>),
   B(<<";", "=", "1">>),
   B(<<";", " ", " ", "x", "=", "1">>),
   B(<<";", "x", " ", "=", "1">>),
   B(<<";", "x", "=", "1", " ", "y">>),
   B(<<";", "x", "=", "*">>),
   B(<<";", "x", "=", "\"", "*", ";", "\"">>),
   B(<<";", "x", "=", "\"", "a">>),
   B(<<";", "x", "=", "\"", "a", "\\">>),
   B(<<";", "x", "=", "\"", "\\", "SOH", "\"">>),
   B(<<";", "x", "=", "\"", "SOH", "\"">>),
   B(<<";", "x", "=", "\"", "a", "\"", " ", "y">>),
   B(<<";", "x", "=", "\"", "\"">>),
   B(<<";", " ", " ", "c", "h", "a", "r", "s", "e", "t", "=", "u", "t", "f", "-", "8">>),
   B(<<";", " ", "c", "h", "a", "r", "s", "e", "t", "=", "\"", "u", "t", "f", "-", "8", "\"">>)}

\* An input with five parameters, the first of them the shorthand.
FiveParams ==
  B(<<"a", "/", "b", ";", " ", "c", "h", "a", "r", "s", "e", "t", "=", "U", "t", "f", "-", "8",
      ";", "x", "=", "1", ";", "Y", "=", "1", ";", "x", "=", "2", ";", "y", "=", "\"", "A", "\"">>)

\* Whole inputs around the wildcard and the suffix marker, and the input
\* with five parameters.
ExtraInputs ==
  {B(<<"a", "*", "b", "/", "c">>),
   B(<<"a", "/", "b", "*", "c">>),
   B(<<"a", "/", "*", "b">>),
   B(<<"a", "/", "*", "*">>),
   B(<<"*", "/", "*", ";", "x", "=", "1">>),
   B(<<"*", "/", "*", ";">>),
   B(<<"a", "/", "+", "b", "+", "c", "+", "d">>),
   B(<<"a", "/", "b", " ", "c">>),
   FiveParams}

\* The inputs whose results are compared with each other.
EqHeads == GoodHeads

EqSegs ==
  {B(<<";", "x", "=", "1">>),
   B(<<";", "x", "=", "2">>),
   B(<<";", "Y", "=", "1">>),
   B(<<";", " ", "c", "h", "a", "r", "s", "e", "t", "=", "u", "t", "f", "-", "8">>)}

EqInputs ==
  {h \o Concat(q) : h \in EqHeads,
                    q \in InjSeqs(EqSegs, MaxParams)
                            \cup {<<c>> \o r : c \in CharsetSegs,
                                                r \in InjSeqs({B(<<";", "x", "=", "1">>)}, 1)}}

ShortAlphabet ==
  {Ascii[c] : c \in {"a", "/", "*", "+", ";", "=", "\"", "\\", " ", "SOH"}}

ShortInputs == UNION {[1..k -> ShortAlphabet] : k \in 0..MaxShort}

ParamLists ==
  InjSeqs(MainSegs, MaxParams)
    \cup {<<c>> \o q : c \in CharsetSegs, q \in InjSeqs(MainSegs, 1)}

Inputs ==
  {h \o Concat(q) : h \in GoodHeads, q \in ParamLists}
    \cup {h \o Concat(q) \o e : h \in GoodHeads, q \in InjSeqs(MainSegs, 1), e \in Tails}
    \cup ExtraInputs
    \cup ShortInputs

\* The inputs whose parse is followed to its return under fairness: every
\* head with at most one parameter, every ending, the inputs around the
\* wildcard and the suffix marker, and the short texts.
FairInputs ==
  {h \o Concat(q) : h \in GoodHeads, q \in InjSeqs(MainSegs, 1)}
    \cup {h \o e : h \in GoodHeads, e \in Tails}
    \cup (ExtraInputs \ {FiveParams})
    \cup ShortInputs

----------------------------------------------------------------------------
(* The lexical structure of an input, read off the text alone: the `;`     *)
(* outside quoted strings split it into a head and parameter segments.     *)
(* It yields the second operands of comparisons and the reference the      *)
(* parser's results are held against.                                      *)

\* The offsets >= i of the bytes b outside quoted strings.
RECURSIVE OffsetsOutsideQuotes(_, _, _, _, _)
OffsetsOutsideQuotes(s, b, i, inq, esc) ==
  IF i >= Len(s) THEN <<>>
  ELSE LET c == s[i + 1]
       IN  IF inq
           THEN IF esc THEN OffsetsOutsideQuotes(s, b, i + 1, TRUE, FALSE)
                ELSE IF c = Ascii["\\"] THEN OffsetsOutsideQuotes(s, b, i + 1, TRUE, TRUE)
                ELSE IF c = Ascii["\""] THEN OffsetsOutsideQuotes(s, b, i + 1, FALSE, FALSE)
                ELSE OffsetsOutsideQuotes(s, b, i + 1, TRUE, FALSE)
           ELSE IF c = Ascii["\""] THEN OffsetsOutsideQuotes(s, b, i + 1, TRUE, FALSE)
                ELSE IF c = b THEN <<i>> \o OffsetsOutsideQuotes(s, b, i + 1, FALSE, FALSE)
                ELSE OffsetsOutsideQuotes(s, b, i + 1, FALSE, FALSE)

SemiOffsets(s) == OffsetsOutsideQuotes(s, Ascii[";"], 0, FALSE, FALSE)

\* The text before the first `;`.
HeadOf(s) ==
  LET o == SemiOffsets(s)
  IN  IF o = <<>> THEN s ELSE Slice(s, 0, o[1])

\* The segments, each from its `;` up to the next one.
SegmentsOf(s) ==
  LET o == SemiOffsets(s)
  IN  [k \in 1..Len(o) |->
         Slice(s, o[k], IF k < Len(o) THEN o[k + 1] ELSE Len(s))]

RECURSIVE StripLeadingSpaces(_)
StripLeadingSpaces(t) ==
  IF t # <<>> /\ Head(t) = Ascii[" "] THEN StripLeadingSpaces(Tail(t)) ELSE t

RECURSIVE StripTrailingSpaces(_)
StripTrailingSpaces(t) ==
  IF t # <<>> /\ t[Len(t)] = Ascii[" "]
  THEN StripTrailingSpaces(SubSeq(t, 1, Len(t) - 1))
  ELSE t

\* The (name, value) a segment `;name=value` denotes: the name lowercased,
\* the value as written (a quoted value with its quotes, without the spaces
\* after it), lowercased when the name is charset.
SegmentPair(seg) ==
  LET body == StripLeadingSpaces(Tail(seg))
      eqs == {k \in 1..Len(body) : body[k] = Ascii["="]}
      k == IF eqs = {} THEN Len(body) + 1
           ELSE CHOOSE e \in eqs : \A e2 \in eqs : e <= e2
      name == to_ascii_lowercase(SubSeq(body, 1, k - 1))
      raw == SubSeq(body, k + 1, Len(body))
      value == IF raw # <<>> /\ Head(raw) = Ascii["\""]
               THEN StripTrailingSpaces(raw) ELSE raw
  IN  <<name, IF name = CharsetText THEN to_ascii_lowercase(value) ELSE value>>

\* The parameters an input text denotes, left to right; a segment with
\* nothing after its `;` denotes none.
RECURSIVE PairsOfSegments(_)
PairsOfSegments(g) ==
  IF g = <<>> THEN <<>>
  ELSE (IF Len(Head(g)) = 1 THEN <<>> ELSE <<SegmentPair(Head(g))>>)
         \o PairsOfSegments(Tail(g))

RefParams(s) == PairsOfSegments(SegmentsOf(s))

\* Inputs related to s: two segments swapped, the last segment replaced or
\* dropped, a `;` appended, another head.
Variants(s) ==
  LET h == HeadOf(s)
      g == SegmentsOf(s)
      n == Len(g)
  IN  {s}
        \cup {h \o Concat([g EXCEPT ![i] = g[j], ![j] = g[i]]) : i, j \in 1..n}
        \cup {h \o Concat([g EXCEPT ![i] = c]) : i \in {n} \ {0}, c \in MainSegs \cup CharsetSegs}
        \cup {h \o Concat(SubSeq(g, 1, n - 1))}
        \cup {s \o B(<<";">>)}
        \cup {k \o Concat(g) : k \in GoodHeads}

----------------------------------------------------------------------------
(* The state: the frame of the parse call under way, the parameter         *)
(* iterator taken from its result, and the outcome of the last operation   *)
(* applied to the result.                                                  *)

VARIABLES fr, it, yielded, ended, obs

vars == <<fr, it, yielded, ended, obs>>

NoObs == [op |-> "none", t |-> <<>>, out |-> FALSE, back |-> FALSE,
          ord |-> "none", ord_back |-> "none", hashes |-> <<>>,
          r |-> [res |-> "run", mime |-> NoMime, err |-> NoError]]

Outcome(f) == [res |-> f.res, mime |-> f.mime, err |-> f.err]

InitOver(S) ==
  /\ \E s \in S, can_range \in {"Yes", "No"}, kind \in InternKinds :
       fr = Frame(s, can_range, kind)
  /\ it = PINone
  /\ yielded = <<>>
  /\ ended = FALSE
  /\ obs = NoObs

Init == InitOver(Inputs)

\* The start of the runs in which results are compared.
InitEq == InitOver(EqInputs)

\* The start of the runs followed to their end.
InitFair == InitOver(FairInputs)

Entry == fr.pc = "entry" /\ fr' = StepEntry(fr) /\ UNCHANGED <<it, yielded, ended, obs>>
TopLevel == fr.pc = "toplevel" /\ fr' = StepTopLevel(fr) /\ UNCHANGED <<it, yielded, ended, obs>>
SubLevel == fr.pc = "sublevel" /\ fr' = StepSubLevel(fr) /\ UNCHANGED <<it, yielded, ended, obs>>
Star == fr.pc = "star" /\ fr' = StepStar(fr) /\ UNCHANGED <<it, yielded, ended, obs>>
ParamsEntry == fr.pc = "params" /\ fr' = StepParams(fr) /\ UNCHANGED <<it, yielded, ended, obs>>
ParamsLoop == fr.pc = "params_loop" /\ fr' = StepParamsLoop(fr) /\ UNCHANGED <<it, yielded, ended, obs>>
Name == fr.pc = "name" /\ fr' = StepName(fr) /\ UNCHANGED <<it, yielded, ended, obs>>
Value == fr.pc = "value" /\ fr' = StepValue(fr) /\ UNCHANGED <<it, yielded, ended, obs>>
Ws == fr.pc = "ws" /\ fr' = StepWs(fr) /\ UNCHANGED <<it, yielded, ended, obs>>
Store == fr.pc = "store" /\ fr' = StepStore(fr) /\ UNCHANGED <<it, yielded, ended, obs>>

\* m.params()
CallParams ==
  /\ fr.res = "ok" /\ obs.op = "none"
  /\ it' = params(fr.mime)
  /\ yielded' = <<>>
  /\ ended' = FALSE
  /\ obs' = [NoObs EXCEPT !.op = "params"]
  /\ UNCHANGED fr

\* One call of next() on the iterator; one more call is made after the
\* first None.
CallNext ==
  /\ obs.op = "params" /\ ~obs.back
  /\ LET r == ParamsNext(as_ref(fr.mime), it)
     IN  /\ it' = r.it
         /\ yielded' = IF r.item = None THEN yielded ELSE Append(yielded, r.item[1])
         /\ ended' = (r.item = None)
         /\ obs' = [obs EXCEPT !.back = ended]
  /\ UNCHANGED fr

\* Parsing the rendered text of the result again, in the same mode.
Reparse ==
  /\ fr.res = "ok" /\ obs.op = "none"
  /\ obs' = [NoObs EXCEPT !.op = "reparse", !.t = as_ref(fr.mime),
                          !.r = Outcome(parse(as_ref(fr.mime), fr.can_range, fr.intern))]
  /\ UNCHANGED <<fr, it, yielded, ended>>

\* a == other and other == a, other being the result of a second parse.
\* The second parse is wildcard-tolerant: a strict parse returns the same
\* value or no value.
Compare ==
  /\ fr.res = "ok" /\ obs.op = "none"
  /\ \E t \in Variants(fr.s) :
       LET o == parse(t, "Yes", fr.intern)
       IN  /\ o.res = "ok"
           /\ obs' = [NoObs EXCEPT !.op = "eq", !.t = t, !.r = Outcome(o),
                                   !.out = eq(fr.mime, o.mime),
                                   !.back = eq(o.mime, fr.mime)]
  /\ UNCHANGED <<fr, it, yielded, ended>>

\* m.eq_str(t, intern)
EqStr ==
  /\ fr.res = "ok" /\ obs.op = "none"
  /\ \E t \in Variants(fr.s) :
       obs' = [NoObs EXCEPT !.op = "eq_str", !.t = t,
                            !.out = eq_str(fr.mime, t, fr.intern)]
  /\ UNCHANGED <<fr, it, yielded, ended>>

\* a.cmp(other), other.cmp(a), the hasher input of both and a == other,
\* other being the result of a second, wildcard-tolerant parse.
Order ==
  /\ fr.res = "ok" /\ obs.op = "none"
  /\ \E t \in Variants(fr.s) :
       LET o == parse(t, "Yes", fr.intern)
       IN  /\ o.res = "ok"
           /\ obs' = [NoObs EXCEPT !.op = "cmp", !.t = t, !.r = Outcome(o),
                                   !.ord = cmp(fr.mime, o.mime),
                                   !.ord_back = cmp(o.mime, fr.mime),
                                   !.hashes = <<hash(fr.mime), hash(o.mime)>>,
                                   !.out = eq(fr.mime, o.mime)]
  /\ UNCHANGED <<fr, it, yielded, ended>>

Next ==
  \/ Entry \/ TopLevel \/ SubLevel \/ Star \/ ParamsEntry \/ ParamsLoop
  \/ Name \/ Value \/ Ws \/ Store
  \/ CallParams \/ CallNext \/ Reparse

Spec == Init /\ [][Next]_vars

\* One step of the call of parse under way.
ParseStep ==
  \/ Entry \/ TopLevel \/ SubLevel \/ Star \/ ParamsEntry \/ ParamsLoop
  \/ Name \/ Value \/ Ws \/ Store

\* parse is a sequential function: once called it keeps taking steps until
\* it returns.
SpecFair == InitFair /\ [][Next]_vars /\ WF_vars(ParseStep)

\* is_token(b) for a byte b.
CallIsToken ==
  /\ obs.op = "none"
  /\ \E b \in 0..255 :
       obs' = [NoObs EXCEPT !.op = "is_token", !.t = <<b>>, !.out = is_token(b)]
  /\ UNCHANGED <<fr, it, yielded, ended>>

\* One iteration of test_lookup_tables of lib.rs: the table entry `valid`
\* and the expectation `should` for byte i.
TestLookupLib ==
  /\ obs.op = "none"
  /\ \E i \in 0..255 :
       obs' = [NoObs EXCEPT !.op = "test_lib", !.t = <<i>>,
                            !.out = (TOKEN_MAP[i + 1] # 0), !.back = should(i)]
  /\ UNCHANGED <<fr, it, yielded, ended>>

\* One iteration of test_lookup_tables of parse.rs.
TestLookupParse ==
  /\ obs.op = "none"
  /\ \E i \in 0..255 :
       obs' = [NoObs EXCEPT !.op = "test_parse", !.t = <<i>>,
                            !.out = (parse_rs_TOKEN_MAP[i + 1] # 0), !.back = should(i)]
  /\ UNCHANGED <<fr, it, yielded, ended>>

\* The start of the runs that classify single bytes: no parse under way.
InitTok == InitOver({<<>>})

NextTok == CallIsToken \/ TestLookupLib \/ TestLookupParse

SpecTok == InitTok /\ [][NextTok]_vars

NextEq == Next \/ Compare \/ EqStr \/ Order

SpecEq == InitEq /\ [][NextEq]_vars

----------------------------------------------------------------------------
(* Properties *)

Done == fr.pc = "done"
Parsed == fr.res = "ok"

\* The items params() yields for a value, in order, and as a set.
ParamList(m) == Drain(as_ref(m), params(m))
ParamSet(m) == {ParamList(m)[i] : i \in 1..Len(ParamList(m))}

\* The text of the type/subtype section, suffix included.
Essence(m) == Slice(as_ref(m), 0, SectionEnd(m))

Count(x, q) == Cardinality({i \in 1..Len(q) : q[i] = x})

IsPermutation(u, v) ==
  /\ Len(u) = Len(v)
  /\ \A i \in 1..Len(u) : Count(u[i], u) = Count(u[i], v)

\* C1: two parsed values are == exactly when their type, subtype and suffix
\* match and their parameters are equal as sets of (name, value) pairs.
C1_EqIffSameParamSet ==
  obs.op = "eq" =>
    (obs.out <=> /\ type_(fr.mime) = type_(obs.r.mime)
                 /\ subtype(fr.mime) = subtype(obs.r.mime)
                 /\ suffix(fr.mime) = suffix(obs.r.mime)
                 /\ ParamSet(fr.mime) = ParamSet(obs.r.mime))

\* C2: m.eq_str(s) is true exactly when s parses in wildcard-tolerant mode
\* to a value that m is == to; the fast paths never answer differently.
C2_EqStrIsParseThenEq ==
  obs.op = "eq_str" =>
    LET o == parse(obs.t, "Yes", fr.intern)
    IN  obs.out <=> (o.res = "ok" /\ eq(fr.mime, o.mime))

\* C3: two parsed values with the same type/subtype whose parameter lists
\* are permutations of each other are == in both directions.
C3_PermutedParamsEqual ==
  (/\ obs.op = "eq"
   /\ Essence(fr.mime) = Essence(obs.r.mime)
   /\ Len(ParamList(fr.mime)) >= 2
   /\ IsPermutation(ParamList(fr.mime), ParamList(obs.r.mime)))
    => (obs.out /\ obs.back)

\* Two values of four parameters in different orders have been compared.
C3_Witness ==
  /\ obs.op = "eq"
  /\ fr.mime.params.tag = "Custom" /\ obs.r.mime.params.tag = "Custom"
  /\ Essence(fr.mime) = Essence(obs.r.mime)
  /\ ParamList(fr.mime) # ParamList(obs.r.mime)
  /\ IsPermutation(ParamList(fr.mime), ParamList(obs.r.mime))
  /\ obs.out /\ obs.back

\* C4: parsing the rendered text of a parsed value in the same mode
\* succeeds and yields a value == the original.
C4_RoundTrip ==
  obs.op = "reparse" =>
    /\ obs.t = as_ref(fr.mime)
    /\ obs.r.res = "ok"
    /\ eq(obs.r.mime, fr.mime)
    /\ eq(fr.mime, obs.r.mime)

\* A value whose rendered text differs from the input has been parsed again.
C4_Witness ==
  /\ obs.op = "reparse"
  /\ obs.t # fr.s
  /\ fr.mime.params.tag = "Three"
  /\ obs.r.res = "ok"

\* C5: the input `*/*` parses to type `*`, subtype `*`, slash 1, no suffix
\* and no parameters when wildcards are permitted, and fails with
\* InvalidRange when they are not.
C5_StarSlashStar ==
  (Done /\ fr.s = StarSlashStar) =>
    IF fr.can_range = "Yes"
    THEN /\ fr.res = "ok"
         /\ type_(fr.mime) = B(<<"*">>)
         /\ subtype(fr.mime) = B(<<"*">>)
         /\ fr.mime.slash = 1
         /\ suffix(fr.mime) = None
         /\ ~has_params(fr.mime)
         /\ ParamList(fr.mime) = <<>>
    ELSE fr.res = "err" /\ fr.err = InvalidRange

\* `*/*` has been parsed with wildcards permitted.
C5_Witness ==
  /\ Done /\ fr.s = StarSlashStar /\ fr.can_range = "Yes" /\ fr.res = "ok"

\* The offsets of the `*` bytes of s outside quoted values.
StarOffsets(s) ==
  LET o == OffsetsOutsideQuotes(s, Ascii["*"], 0, FALSE, FALSE)
  IN  {o[k] : k \in 1..Len(o)}

\* The `*` at offset p is the whole subtype, right after the first `/` of a
\* non-empty type and right before `;` or the end, wildcards permitted.
AcceptedStar(s, can_range, p) ==
  /\ can_range = "Yes"
  /\ p >= 2
  /\ s[p] = Ascii["/"]
  /\ \A k \in 1..(p - 1) : s[k] # Ascii["/"]
  /\ (p + 1 = Len(s) \/ s[p + 2] = Ascii[";"])

\* C6 as claimed: every `*` outside a quoted value that is not an accepted
\* subtype wildcard makes the parse fail with InvalidToken.
C6_StarAsClaimed ==
  Done =>
    \A p \in StarOffsets(fr.s) :
      ~AcceptedStar(fr.s, fr.can_range, p) =>
        (fr.res = "err" /\ fr.err.kind = "InvalidToken")

\* C6, amended: in every input other than the exact text `*/*`, a `*`
\* outside a quoted value that is not the whole subtype, directly before
\* `;` or the end, with wildcards permitted, makes the parse fail with
\* InvalidToken.
C6_StarPlacement ==
  (Done /\ fr.s # StarSlashStar) =>
    \A p \in StarOffsets(fr.s) :
      ~AcceptedStar(fr.s, fr.can_range, p) =>
        (fr.res = "err" /\ fr.err.kind = "InvalidToken")

\* A subtype `*` directly before the end has been rejected in strict mode.
C6_Witness ==
  /\ Done /\ fr.can_range = "No" /\ fr.s # StarSlashStar
  /\ \E p \in StarOffsets(fr.s) :
       /\ AcceptedStar(fr.s, "Yes", p)
       /\ fr.res = "err" /\ fr.err = InvalidToken(p, Ascii["*"])

\* The frame is about to call iter.next() with no byte left.
AtEndOfInput(f) ==
  /\ f.pc \in {"toplevel", "sublevel", "star", "name", "value", "ws"}
  /\ ~HasNext(f)

\* C7: end of input while scanning the type is MissingSlash, while scanning
\* a parameter name MissingEqual, inside a quoted value (also right after a
\* backslash) MissingQuote; in every other state the parse ends
\* successfully.
C7_EndOfInputByState ==
  [][AtEndOfInput(fr) =>
       IF fr.pc = "toplevel" THEN fr'.res = "err" /\ fr'.err = MissingSlash
       ELSE IF fr.pc = "name" THEN fr'.res = "err" /\ fr'.err = MissingEqual
       ELSE IF fr.pc = "value" /\ fr.is_quoted
       THEN fr'.res = "err" /\ fr'.err = MissingQuote
       ELSE fr'.res # "err" /\ Run(fr').res = "ok"]_vars

\* The input ended right after an escape backslash.
C7_Witness ==
  /\ Done /\ fr.res = "err" /\ fr.err = MissingQuote
  /\ fr.nexts = Len(fr.s) + 1
  /\ fr.s[Len(fr.s)] = Ascii["\\"]

\* C8: InvalidToken{pos, byte} names a valid offset of the input and the
\* byte there; all bytes before pos and no others were consumed, the text
\* before pos raises no InvalidToken itself, and no value is returned.
C8_InvalidTokenPosition ==
  (Done /\ fr.res = "err" /\ fr.err.kind = "InvalidToken") =>
    /\ fr.err.pos >= 0 /\ fr.err.pos < Len(fr.s)
    /\ fr.s[fr.err.pos + 1] = fr.err.byte
    /\ fr.iter = fr.err.pos + 1
    /\ fr.nexts = fr.err.pos + 1
    /\ fr.mime = NoMime
    /\ LET before == parse(Slice(fr.s, 0, fr.err.pos), fr.can_range, fr.intern)
       IN  ~(before.res = "err" /\ before.err.kind = "InvalidToken")

\* A space after the bytes of an unquoted value has been reported.
C8_Witness ==
  /\ Done /\ fr.res = "err" /\ fr.err.kind = "InvalidToken"
  /\ fr.err.byte = Ascii[" "]
  /\ ~fr.is_quoted
  /\ fr.start = fr.name[2] + 1
  /\ fr.err.pos > fr.start

\* C9: params() yields the parameters the input text denotes, left to
\* right, each as its normalized (name, value); after the last one next()
\* returns None, and None again.
C9_ParamsInOrder ==
  obs.op = "params" =>
    LET ref == RefParams(fr.s)
    IN  /\ Len(yielded) <= Len(ref)
        /\ yielded = SubSeq(ref, 1, Len(yielded))
        /\ ended => yielded = ref
        /\ obs.back => ended

\* Four parameters have been yielded from the dynamic storage, then None.
C9_Witness ==
  /\ obs.op = "params" /\ ended /\ obs.back
  /\ fr.mime.params.tag = "Custom"
  /\ Len(yielded) = 4

\* s is `T/S;charset=utf-8` in any casing of name and value, with or
\* without one space after the `;`.
IsCharsetUtf8Input(s) ==
  LET g == SegmentsOf(s)
  IN  /\ Len(g) = 1
      /\ LET body == Tail(g[1])
             rest == IF body # <<>> /\ Head(body) = Ascii[" "] THEN Tail(body) ELSE body
         IN  eq_ignore_ascii_case(rest, CharsetText \o <<Ascii["="]>> \o Utf8Text)

\* C10: `T/S; charset=utf-8` and `T/S;charset=UTF-8`, in any casing and
\* with or without the space, parse to values == each other whose
\* iterators yield exactly the pair (charset, utf-8).
C10_CharsetUtf8Forms ==
  (/\ obs.op = "eq"
   /\ IsCharsetUtf8Input(fr.s) /\ IsCharsetUtf8Input(obs.t)
   /\ HeadOf(fr.s) = HeadOf(obs.t))
    => /\ obs.out /\ obs.back
       /\ ParamList(fr.mime) = <<<<CharsetText, Utf8Text>>>>
       /\ ParamList(obs.r.mime) = <<<<CharsetText, Utf8Text>>>>

\* The shorthand form has been compared with an uppercase form stored as
\* an explicit pair.
C10_Witness ==
  /\ obs.op = "eq"
  /\ IsCharsetUtf8Input(fr.s) /\ IsCharsetUtf8Input(obs.t)
  /\ HeadOf(fr.s) = HeadOf(obs.t)
  /\ fr.mime.params.tag = "Utf8" /\ obs.r.mime.params.tag = "One"
  /\ obs.t # as_ref(obs.r.mime)
  /\ obs.out /\ obs.back

\* The offset of the first `/` of s, and the offsets of its `+` bytes beyond
\* the first byte after that `/`.
FirstSlash(s) == CHOOSE i \in 0..Len(s) : i = Len(s) \/ (s[i + 1] = Ascii["/"] /\ \A k \in 1..i : s[k] # Ascii["/"])

PlusOffsets(s) == {i \in (FirstSlash(s) + 2)..(Len(s) - 1) : s[i + 1] = Ascii["+"]}

LastOf(S) == CHOOSE i \in S : \A j \in S : j <= i

\* C11 as claimed: for a parsed input without parameters, type() is the
\* text before the slash and subtype() the whole text after it, also when
\* the subtype contains `+`.
C11_SubtypeAsClaimed ==
  (Done /\ Parsed /\ ~has_params(fr.mime)) =>
    /\ fr.mime.slash = FirstSlash(fr.s)
    /\ type_(fr.mime) = Slice(as_ref(fr.mime), 0, fr.mime.slash)
    /\ subtype(fr.mime) = Slice(as_ref(fr.mime), fr.mime.slash + 1, Len(as_ref(fr.mime)))

\* C11, amended: for a parsed input without parameters the rendered text is
\* the input, possibly case-folded; type() is the text before the first
\* `/`; subtype() is the text after it up to the last `+` that is not the
\* first subtype byte, and the whole remainder only when there is no such
\* `+`; suffix() is the text after that `+`.
C11_TypeSubtypeSlices ==
  (Done /\ Parsed /\ ~has_params(fr.mime)) =>
    LET t == as_ref(fr.mime)
        sl == FirstSlash(fr.s)
        pl == PlusOffsets(fr.s)
    IN  /\ t \in {fr.s, to_ascii_lowercase(fr.s)}
        /\ fr.mime.slash = sl
        /\ type_(fr.mime) = Slice(t, 0, sl)
        /\ IF pl = {}
           THEN /\ subtype(fr.mime) = Slice(t, sl + 1, Len(t))
                /\ suffix(fr.mime) = None
           ELSE /\ subtype(fr.mime) = Slice(t, sl + 1, LastOf(pl))
                /\ suffix(fr.mime) = Some(Slice(t, LastOf(pl) + 1, Len(t)))

\* An input without parameters whose subtype holds several `+` has been
\* parsed: subtype() stops at the last of them.
C11_Witness ==
  /\ Done /\ Parsed /\ ~has_params(fr.mime)
  /\ Cardinality(PlusOffsets(fr.s)) >= 2
  /\ fr.mime.plus = Some(LastOf(PlusOffsets(fr.s)))
  /\ Len(subtype(fr.mime)) < Len(fr.s) - fr.mime.slash - 1

\* A segment `;name=value` as it is to be rendered: the text up to the
\* first `=` lowercased, the rest lowercased only under the name charset.
RenderSegment(seg) ==
  LET eqs == {k \in 1..Len(seg) : seg[k] = Ascii["="]}
      k == IF eqs = {} THEN Len(seg) + 1
           ELSE CHOOSE e \in eqs : \A e2 \in eqs : e <= e2
      front == to_ascii_lowercase(SubSeq(seg, 1, k - 1))
      rest == SubSeq(seg, k, Len(seg))
  IN  IF StripLeadingSpaces(Tail(front)) = CharsetText
      THEN front \o to_ascii_lowercase(rest)
      ELSE front \o rest

\* The input with the bytes before the first `;`, the parameter names and
\* the charset values lowercased, every other byte as written.
ExpectedRender(s) ==
  LET g == SegmentsOf(s)
  IN  to_ascii_lowercase(HeadOf(s)) \o Concat([k \in 1..Len(g) |-> RenderSegment(g[k])])

\* C12: for a parsed input with at least one parameter the rendered text
\* has the length of the input and differs from it only by lowercasing the
\* bytes before the first `;`, the parameter names and the values of the
\* parameters named charset; the input written with just those parts in
\* lowercase renders to the same text.
C12_RenderedText ==
  (Done /\ Parsed /\ has_params(fr.mime)) =>
    /\ Len(as_ref(fr.mime)) = Len(fr.s)
    /\ as_ref(fr.mime) = ExpectedRender(fr.s)
    /\ LET o == parse(ExpectedRender(fr.s), fr.can_range, fr.intern)
       IN  o.res = "ok" /\ as_ref(o.mime) = as_ref(fr.mime)

\* An input with an uppercase type, an uppercase name and an uppercase
\* value of a parameter that is not charset has been rendered.
C12_Witness ==
  /\ Done /\ Parsed /\ has_params(fr.mime)
  /\ as_ref(fr.mime) # fr.s
  /\ as_ref(fr.mime) # to_ascii_lowercase(fr.s)
  /\ type_(fr.mime) # Slice(fr.s, 0, fr.mime.slash)
  /\ \E i \in 1..Len(ParamList(fr.mime)) :
       ParamList(fr.mime)[i][2] # to_ascii_lowercase(ParamList(fr.mime)[i][2])

\* t precedes u in the byte-wise lexicographic order.
LexLess(t, u) ==
  \E k \in 0..Len(t) :
    /\ k <= Len(u)
    /\ SubSeq(t, 1, k) = SubSeq(u, 1, k)
    /\ \/ k = Len(t) /\ k < Len(u)
       \/ k < Len(t) /\ k < Len(u) /\ t[k + 1] < u[k + 1]

Flip(o) == IF o = "Less" THEN "Greater" ELSE IF o = "Greater" THEN "Less" ELSE o

\* Values the ordering of two results is chained with.
Pivots ==
  {parse(t, "Yes", "keep").mime :
     t \in {B(<<"a", "/", "b", ";", "x", "=", "1", ";", "Y", "=", "1">>),
            B(<<"a", "/", "b", ";", " ", "c", "h", "a", "r", "s", "e", "t", "=", "u", "t", "f", "-", "8">>),
            B(<<"a", "/", "b", "+", "c">>)}}

\* C13: cmp is the byte-wise lexicographic comparison of the two rendered
\* texts and a total order; the hasher is fed exactly the bytes of the
\* rendered text; cmp is Equal exactly when the texts are identical, which
\* is exactly when the hasher inputs are; two values with the same
\* parameters in a different order are == while cmp is not Equal.
C13_OrderAndHashByText ==
  obs.op = "cmp" =>
    LET a == fr.mime
        b == obs.r.mime
        ta == as_ref(a)
        tb == as_ref(b)
    IN  /\ obs.ord = (IF ta = tb THEN "Equal" ELSE IF LexLess(ta, tb) THEN "Less" ELSE "Greater")
        /\ obs.ord_back = Flip(obs.ord)
        /\ obs.hashes = <<<<ta>>, <<tb>>>>
        /\ (obs.ord = "Equal") <=> (ta = tb)
        /\ (ta = tb) <=> (obs.hashes[1] = obs.hashes[2])
        /\ \A p \in Pivots :
             /\ (obs.ord = "Less" /\ cmp(b, p) # "Greater") => cmp(a, p) = "Less"
             /\ (obs.ord = "Greater" /\ cmp(b, p) # "Less") => cmp(a, p) = "Greater"
             /\ obs.ord = "Equal" => cmp(a, p) = cmp(b, p)
        /\ (/\ Essence(a) = Essence(b)
            /\ ParamList(a) # ParamList(b)
            /\ IsPermutation(ParamList(a), ParamList(b)))
             => (obs.out /\ obs.ord # "Equal" /\ obs.hashes[1] # obs.hashes[2])

\* Two values with the same three parameters in different orders have been
\* ordered and hashed: they are == and cmp is not Equal.
C13_Witness ==
  /\ obs.op = "cmp"
  /\ Essence(fr.mime) = Essence(obs.r.mime)
  /\ Len(ParamList(fr.mime)) = 3
  /\ ParamList(fr.mime) # ParamList(obs.r.mime)
  /\ IsPermutation(ParamList(fr.mime), ParamList(obs.r.mime))
  /\ obs.out /\ obs.ord = "Less" /\ obs.ord_back = "Greater"

\* C14: a result stored as the UTF-8 shorthand renders as exactly
\* `<type>/<subtype>; charset=utf-8` in lowercase: one `;`, one space,
\* `charset=utf-8` and nothing after it.
C14_Utf8ShorthandText ==
  (Done /\ Parsed /\ fr.mime.params.tag = "Utf8") =>
    LET t == as_ref(fr.mime)
        semi == fr.mime.params.semi
    IN  /\ t = Slice(t, 0, semi) \o B(<<";", " ">>) \o CharsetText \o B(<<"=">>) \o Utf8Text
        /\ t = to_ascii_lowercase(t)
        /\ SemiOffsets(t) = <<semi>>

\* C15: type() and subtype() of a parsed value hold only token bytes (or
\* the subtype is exactly `*`), never the `;` separator or anything after
\* it, and a value without parameters has no `;` in its rendered text.
C15_NoSeparatorInSubtype ==
  (Done /\ Parsed) =>
    LET ty == type_(fr.mime)
        st == subtype(fr.mime)
    IN  /\ \A i \in 1..Len(ty) : is_token_rfc(ty[i])
        /\ st = B(<<"*">>) \/ \A i \in 1..Len(st) : is_token_rfc(st[i])
        /\ ~has_params(fr.mime) => \A i \in 1..Len(as_ref(fr.mime)) : as_ref(fr.mime)[i] # Ascii[";"]

\* C16: type() and subtype() of every parsed value are non-empty; an input
\* with an empty type or an empty subtype is rejected.
C16_TypeAndSubtypeNonEmpty ==
  (Done /\ Parsed) => (Len(type_(fr.mime)) > 0 /\ Len(subtype(fr.mime)) > 0)

\* The frame is in the 'name loop and its next byte is c, the byte before
\* it being one of prev.
NameSees(f, c, prev) ==
  /\ f.pc = "name" /\ HasNext(f) /\ NextByte(f) = c
  /\ f.iter >= 1 /\ f.s[f.iter] \in prev

\* C17: one space right after the `;` is skipped; a second consecutive
\* space before the name fails with InvalidToken at that space; `=` after
\* at least one name byte ends the name, and `=` with no name byte before
\* it is rejected.
C17_OneLeadingSpace ==
  [][/\ NameSees(fr, Ascii[" "], {Ascii[";"]}) => fr'.pc = "name"
     /\ NameSees(fr, Ascii[" "], {Ascii[" "]}) =>
          (fr'.res = "err" /\ fr'.err = InvalidToken(fr.iter, Ascii[" "]))
     /\ NameSees(fr, Ascii["="], {Ascii[";"], Ascii[" "]}) =>
          (fr'.res = "err" /\ fr'.err = InvalidToken(fr.iter, Ascii["="]))
     /\ (fr.pc = "name" /\ HasNext(fr) /\ NextByte(fr) = Ascii["="]
           /\ fr.iter >= 1 /\ is_token(fr.s[fr.iter])) =>
          (fr'.pc = "value" /\ fr'.name[2] = fr.iter
             /\ \A k \in (fr'.name[1] + 1)..fr'.name[2] : is_token(fr.s[k]))]_vars

ShorthandSegment == B(<<";", " ">>) \o CharsetText \o B(<<"=">>) \o Utf8Text

\* s has the single parameter charset with the value utf-8, unquoted or
\* quoted, in any casing, with or without spaces after the `;`.
IsSingleCharsetUtf8(s) ==
  \/ RefParams(s) = <<<<CharsetText, Utf8Text>>>>
  \/ RefParams(s) = <<<<CharsetText, B(<<"\"">>) \o Utf8Text \o B(<<"\"">>)>>>>

\* s is `T/S; charset=utf-8` in any casing with exactly one space after the
\* `;` and the value unquoted, possibly followed by one more `;`.
IsShorthandInput(s) ==
  LET g == SegmentsOf(s)
  IN  /\ Len(g) \in {1, 2}
      /\ eq_ignore_ascii_case(g[1], ShorthandSegment)
      /\ Len(g) = 2 => g[2] = B(<<";">>)

\* C18 as claimed: the shorthand is stored exactly when the input has the
\* single parameter charset=utf-8, case-insensitively, unquoted or quoted,
\* with or without a space after the `;`.
C18_ShorthandAsClaimed ==
  (Done /\ Parsed) => (fr.mime.params.tag = "Utf8" <=> IsSingleCharsetUtf8(fr.s))

\* C18, amended: the shorthand is stored exactly when the input has the
\* single parameter charset=utf-8, case-insensitively, written with exactly
\* one space after the `;` and an unquoted value (one more `;` may end the
\* input); every other result with parameters stores one explicit pair of
\* spans per parameter.
C18_ShorthandExactly ==
  (Done /\ Parsed) =>
    /\ fr.mime.params.tag = "Utf8" <=> IsShorthandInput(fr.s)
    /\ (has_params(fr.mime) /\ fr.mime.params.tag # "Utf8") =>
         LET ps == fr.mime.params.pairs
         IN  /\ Len(ps) = Len(RefParams(fr.s))
             /\ \A k \in 1..Len(ps) : PairText(as_ref(fr.mime), ps[k]) = RefParams(fr.s)[k]

\* The single parameter charset="utf-8", quoted, with one space after the
\* `;`, has been stored as an explicit pair.
C18_Witness ==
  /\ Done /\ Parsed
  /\ IsSingleCharsetUtf8(fr.s)
  /\ fr.mime.params.tag = "One"
  /\ fr.mime.params.semi + 2 = fr.mime.params.pairs[1][1][1]
  /\ fr.mime.params.pairs[1][2][2] - fr.mime.params.pairs[1][2][1] = Len(Utf8Text) + 2

IsTokenText(t) == t # <<>> /\ \A i \in 1..Len(t) : is_token(t[i])

\* v is a quoted string, possibly followed by spaces: quotes around bytes
\* that are allowed inside, an inner quote only after a backslash.
IsQuotedText(v) ==
  LET q == StripTrailingSpaces(v)
  IN  /\ Len(q) >= 2 /\ q[1] = Ascii["\""] /\ q[Len(q)] = Ascii["\""]
      /\ \A i \in 2..(Len(q) - 1) :
           /\ is_restricted_quoted_char(q[i])
           /\ q[i] = Ascii["\""] => q[i - 1] = Ascii["\\"]
      /\ (Len(q) >= 3 /\ q[Len(q) - 1] = Ascii["\\"]) =>
           (Len(q) >= 4 /\ q[Len(q) - 2] = Ascii["\\"])

\* seg is `;name=value` with at most one space after the `;`, a token as
\* name and a token or a quoted string as value.
WellFormedSegment(seg) ==
  LET body == IF Len(seg) >= 2 /\ seg[2] = Ascii[" "] THEN SubSeq(seg, 3, Len(seg)) ELSE Tail(seg)
      eqs == {k \in 1..Len(body) : body[k] = Ascii["="]}
      k == IF eqs = {} THEN Len(body) + 1
           ELSE CHOOSE e \in eqs : \A e2 \in eqs : e <= e2
      name == SubSeq(body, 1, k - 1)
      value == SubSeq(body, k + 1, Len(body))
  IN  /\ eqs # {}
      /\ IsTokenText(name)
      /\ IsTokenText(value) \/ IsQuotedText(value)

\* s is `*/*` or `T/*`, T a token, followed by zero or more well-formed
\* parameters.
IsRangeInput(s) ==
  LET h == HeadOf(s)
      g == SegmentsOf(s)
  IN  /\ \/ h = StarSlashStar
         \/ /\ Len(h) >= 3
            /\ IsTokenText(SubSeq(h, 1, Len(h) - 2))
            /\ SubSeq(h, Len(h) - 1, Len(h)) = B(<<"/", "*">>)
      /\ \A k \in 1..Len(g) : WellFormedSegment(g[k])

\* C19: in wildcard-tolerant mode every input `*/*` or `T/*`, alone or
\* followed by `;` and well-formed parameters, parses successfully and
\* params() yields its parameters.
C19_RangesWithParams ==
  (Done /\ fr.can_range = "Yes" /\ IsRangeInput(fr.s)) =>
    (Parsed /\ ParamList(fr.mime) = RefParams(fr.s))

\* C20: every parameter of a parsed value has a non-empty name and a
\* non-empty value; an input with nothing after a parameter's `=` is
\* rejected, before `;` as well as at the end of the input.
C20_NamesAndValuesNonEmpty ==
  (Done /\ Parsed) =>
    \A i \in 1..Len(ParamList(fr.mime)) :
      ParamList(fr.mime)[i][1] # <<>> /\ ParamList(fr.mime)[i][2] # <<>>

\* The pairs a storage holds, the shorthand counting as the one pair its
\* `;` offset determines.
StoredPairs(p) ==
  IF p.tag = "Utf8"
  THEN <<<<Indexed(p.semi + 2, p.semi + 9), Indexed(p.semi + 10, p.semi + 15)>>>>
  ELSE p.pairs

\* The variant that holds k parameters.
VariantOf(p, k) ==
  CASE k = 0 -> p.tag = "None"
    [] k = 1 -> p.tag \in {"Utf8", "One"}
    [] k = 2 -> p.tag = "Two"
    [] k = 3 -> p.tag = "Three"
    [] OTHER -> p.tag = "Custom"

\* The number of parameters in the part of the input consumed so far.
ParsedSoFar(f) == Len(RefParams(Slice(f.s, 0, f.start)))

\* C21: at every step the storage variant is the one for the number k of
\* parameters parsed so far (None, the shorthand or One, Two, Three, Custom
\* with exactly k >= 4 pairs); each store step keeps the pairs collected
\* before, in order, and appends the new pair last; the pair materialized
\* when the shorthand becomes Two slices `charset` and `utf-8` out of the
\* normalized text.
C21_StorageFollowsCount ==
  [][/\ fr'.pc = "params_loop" =>
          /\ VariantOf(fr'.params, ParsedSoFar(fr'))
          /\ Len(StoredPairs(fr'.params)) = ParsedSoFar(fr')
          /\ fr'.params.tag = "Custom" => Len(fr'.params.pairs) >= 4
     /\ fr.pc = "store" =>
          LET old == StoredPairs(fr.params)
              new == StoredPairs(fr'.params)
          IN  /\ new = Append(old, <<fr.name, fr.value>>)
              /\ fr.params.tag # "None" => fr'.params.semi = fr.params.semi
              /\ fr.params.tag = "Utf8" =>
                   PairText(lower_ascii_with_params(fr.s, fr'.params.semi, fr'.params.pairs), new[1])
                     = <<CharsetText, Utf8Text>>]_vars

\* Five parameters, the first of them the shorthand, have been stored in
\* the dynamic list.
C21_Witness ==
  /\ Done /\ Parsed
  /\ fr.mime.params.tag = "Custom" /\ Len(fr.mime.params.pairs) = 5
  /\ eq_ignore_ascii_case(SegmentsOf(fr.s)[1], ShorthandSegment)
  /\ PairText(as_ref(fr.mime), fr.mime.params.pairs[1]) = <<CharsetText, Utf8Text>>

\* C22: every stored (name, value) span pair of a parsed value satisfies
\* semicolon < name.start < name.end < value.start <= value.end <=
\* len(source); the byte at name.end is `=` and the value starts right
\* after it; the name bytes are token bytes; the spans of successive
\* parameters increase strictly and do not overlap.
C22_SpansWellFormed ==
  (Done /\ Parsed) =>
    LET t == as_ref(fr.mime)
        ps == fr.mime.params.pairs
    IN  /\ \A k \in 1..Len(ps) :
             LET name == ps[k][1]
                 value == ps[k][2]
             IN  /\ fr.mime.params.semi < name[1]
                 /\ name[1] < name[2]
                 /\ name[2] < value[1]
                 /\ value[1] <= value[2]
                 /\ value[2] <= Len(t)
                 /\ t[name[2] + 1] = Ascii["="]
                 /\ value[1] = name[2] + 1
                 /\ \A i \in (name[1] + 1)..name[2] : is_token(t[i])
        /\ \A k \in 1..(Len(ps) - 1) : ps[k][2][2] < ps[k + 1][1][1]
        /\ has_params(fr.mime) =>
             (fr.mime.slash < fr.mime.params.semi /\ fr.mime.params.semi < Len(t))

\* A value with a quoted parameter followed by two more has been parsed.
C22_Witness ==
  /\ Done /\ Parsed
  /\ fr.mime.params.tag = "Three"
  /\ \E k \in 1..2 :
       as_ref(fr.mime)[fr.mime.params.pairs[k][2][1] + 1] = Ascii["\""]

\* The offset of the first `;` of s, or its length.
FirstSemi(s) ==
  CHOOSE i \in 0..Len(s) :
    /\ i = Len(s) \/ s[i + 1] = Ascii[";"]
    /\ \A k \in 1..i : s[k] # Ascii[";"]

\* The offsets of the `+` bytes of the subtype of s other than its first
\* byte.
SubtypePlusOffsets(s) ==
  {i \in (FirstSlash(s) + 2)..(FirstSemi(s) - 1) : s[i + 1] = Ascii["+"]}

\* C23: a parsed value has 0 < slash < len(source); the suffix marker is
\* recorded exactly when the subtype has a `+` after its first byte and is
\* the offset of the last one, with slash + 1 < plus < end of the subtype
\* section; a failed parse returns no value.
C23_SlashAndPlusOffsets ==
  Done =>
    IF Parsed
    THEN LET m == fr.mime
             pl == SubtypePlusOffsets(fr.s)
         IN  /\ 0 < m.slash /\ m.slash < Len(as_ref(m))
             /\ m.slash = FirstSlash(fr.s)
             /\ m.plus = (IF pl = {} THEN None ELSE Some(LastOf(pl)))
             /\ m.plus # None =>
                  (m.slash + 1 < m.plus[1] /\ m.plus[1] < SectionEnd(m))
    ELSE fr.mime = NoMime

\* A value whose subtype starts with `+` and holds further `+` has been
\* parsed: the marker is the last of them.
C23_Witness ==
  /\ Done /\ Parsed
  /\ Cardinality(SubtypePlusOffsets(fr.s)) >= 2
  /\ fr.s[fr.mime.slash + 2] = Ascii["+"]
  /\ fr.mime.plus = Some(LastOf(SubtypePlusOffsets(fr.s)))

\* The number of consecutive backslashes right before offset i, counted
\* back no further than offset q + 1.
RECURSIVE BackslashRun(_, _, _)
BackslashRun(s, q, i) ==
  IF i - 1 > q /\ s[i] = Ascii["\\"] THEN 1 + BackslashRun(s, q, i - 1) ELSE 0

\* The byte at offset i of a quoted value opened at offset q directly
\* follows an escape backslash.
EscapedAt(s, q, i) == BackslashRun(s, q, i) % 2 = 1

\* The offsets of the unescaped `"` after the opening quote at offset q.
UnescapedQuotes(s, q) ==
  {i \in (q + 1)..(Len(s) - 1) : s[i + 1] = Ascii["\""] /\ ~EscapedAt(s, q, i)}

\* The frame is inside a quoted value and its next byte is at offset i.
InQuoted(f) == f.pc = "value" /\ f.is_quoted /\ HasNext(f)

\* C24: a quoted value runs from its opening `"` through the first
\* unescaped `"`; a `"` right after an escape backslash does not close it;
\* a byte that is not a restricted quoted char is InvalidToken at its
\* offset, escaped or not; after the closing quote spaces are skipped up
\* to `;` or the end of the input, and any other byte is InvalidToken.
C24_QuotedValues ==
  [][/\ InQuoted(fr) =>
          LET i == fr.iter
              c == NextByte(fr)
              q == fr.start
          IN  /\ fr.s[q + 1] = Ascii["\""]
              /\ fr.is_quoted_pair = EscapedAt(fr.s, q, i)
              /\ IF ~is_restricted_quoted_char(c)
                 THEN fr'.res = "err" /\ fr'.err = InvalidToken(i, c)
                 ELSE IF i \in UnescapedQuotes(fr.s, q)
                 THEN /\ \A j \in UnescapedQuotes(fr.s, q) : i <= j
                      /\ fr'.pc = "ws" /\ fr'.value = Indexed(q, i + 1)
                 ELSE fr'.pc = "value" /\ fr'.is_quoted /\ fr'.start = q
     /\ (fr.pc = "ws" /\ HasNext(fr)) =>
          LET i == fr.iter
              c == NextByte(fr)
          IN  IF c = Ascii[" "] THEN fr'.pc = "ws" /\ fr'.value = fr.value
              ELSE IF c = Ascii[";"] THEN fr'.pc = "store" /\ fr'.start = i + 1
              ELSE fr'.res = "err" /\ fr'.err = InvalidToken(i, c)]_vars

\* A quoted value holding an escaped quote and followed by a space and a
\* further parameter has been parsed.
C24_Witness ==
  /\ Done /\ Parsed
  /\ \E k \in 1..(Len(fr.mime.params.pairs) - 1) :
       LET v == fr.mime.params.pairs[k][2]
       IN  /\ Slice(as_ref(fr.mime), v[1], v[2]) = B(<<"\"", "A", "\\", "\"", "\"">>)
           /\ as_ref(fr.mime)[v[2] + 1] = Ascii[" "]

\* The states of the frame in which it calls iter.next().
ConsumingPcs == {"toplevel", "sublevel", "star", "name", "value", "ws"}

ErrorKinds ==
  {"MissingSlash", "MissingEqual", "MissingQuote", "InvalidRange", "InvalidToken"}

\* One step of parse consumes at most one byte, never the same byte twice,
\* and keeps the outcome once it has returned.
BoundedStep ==
  /\ fr'.nexts <= Len(fr.s) + 1
  /\ fr'.iter <= Len(fr.s)
  /\ IF fr.pc \in ConsumingPcs
     THEN /\ fr'.nexts = fr.nexts + 1
          /\ fr.nexts = fr.iter
          /\ HasNext(fr) => fr'.iter = fr.iter + 1
          /\ ~HasNext(fr) => (fr'.iter = fr.iter /\ fr'.pc \in {"done", "store"})
     ELSE /\ fr'.nexts = fr.nexts /\ fr'.iter = fr.iter
          /\ fr.pc # "done" => fr'.pc # fr.pc
  /\ fr.pc = "params_loop" => fr.start = fr.iter
  /\ fr.pc = "done" => fr' = fr
  /\ fr'.pc = "done" =>
       \/ fr'.res = "ok" /\ fr'.err = NoError /\ fr'.mime # NoMime
       \/ fr'.res = "err" /\ fr'.err.kind \in ErrorKinds /\ fr'.mime = NoMime
  /\ fr'.pc # "done" => fr'.res = "run"

\* C25: for every input and either mode parse terminates with exactly one
\* outcome, a value or one of the five error kinds, after at most
\* len(input) + 1 calls of iter.next(); every iteration of a loop consumes
\* one byte or returns, no byte is examined twice, and at the top of each
\* parameter iteration start is the number of bytes consumed.
C25_Terminates == [][BoundedStep]_vars /\ <>Done

\* A parse has returned a value with a quoted parameter after
\* len(input) + 1 calls of iter.next(), the last of them in the 'ws loop.
C25_Witness ==
  /\ Done /\ Parsed
  /\ fr.nexts = Len(fr.s) + 1
  /\ fr.iter = Len(fr.s)
  /\ fr.is_quoted /\ fr.s[Len(fr.s)] = Ascii[" "]

\* The tchar of RFC 7231 as the specification lists them: letters, digits
\* and ! # $ % & ' * + - . ^ _ ` | ~
IsRfcTchar(b) ==
  \/ b \in 65..90 \/ b \in 97..122 \/ b \in 48..57
  \/ b \in {Ascii["*"], Ascii["+"], Ascii["-"], 33, 35, 36, 37, 38, 39, 46, 94, 95, 96, 124, 126}

\* C26 as claimed: is_token(b) is true exactly for the RFC 7231 tchar, the
\* `*` included, and false for every other byte value.
C26_TcharWithStar ==
  obs.op = "is_token" => (obs.out <=> IsRfcTchar(obs.t[1]))

\* C26, amended: is_token(b) is true exactly for the RFC 7231 tchar other
\* than `*`, and false for `*` and every other byte value 0..255.
C26_TcharWithoutStar ==
  obs.op = "is_token" =>
    (obs.out <=> (IsRfcTchar(obs.t[1]) /\ obs.t[1] # Ascii["*"]))

\* is_token has been applied to `*` and answered false.
C26_Witness ==
  obs.op = "is_token" /\ obs.t = <<Ascii["*"]>> /\ ~obs.out

\* The set test_lookup_tables enumerates, as byte values.
EnumeratedTokenBytes ==
  (97..122) \cup (65..90) \cup (48..57)
    \cup {33, 35, 36, 37, 38, 39, Ascii["+"], Ascii["-"], 46, 94, 95, 96, 124, 126}

\* C27: for every byte value the table entry equals membership in the set
\* the test enumerates, which leaves out `*`, space, `/`, `;`, `=`, `"`,
\* the control bytes and the bytes >= 128; the tables of the two editions
\* are the same.
C27_TableMatchesTest ==
  obs.op \in {"test_lib", "test_parse"} =>
    LET i == obs.t[1]
    IN  /\ obs.out = obs.back
        /\ obs.out <=> i \in EnumeratedTokenBytes
        /\ (\/ i \in {Ascii["*"], Ascii[" "], Ascii["/"], Ascii[";"], Ascii["="], Ascii["\""]}
            \/ i < 32 \/ i >= 127) => ~obs.out
        /\ TOKEN_MAP[i + 1] = parse_rs_TOKEN_MAP[i + 1]
        /\ Len(TOKEN_MAP) = 256 /\ Len(parse_rs_TOKEN_MAP) = 256

\* The test of the second edition has looked up `*`: the entry is false,
\* as the test expects.
C27_Witness ==
  /\ obs.op = "test_parse" /\ obs.t = <<Ascii["*"]>>
  /\ ~obs.out /\ ~obs.back

====
